---- MODULE Spec2Model ----
(***************************************************************************)
(* FluCardPro-AutoImport: the import decision engine of fluImport.py       *)
(* (FluCard.get_new_photos), its watermark store (get_flu_base_data,       *)
(* new_flubase_file, update_flu_base_data) and the polling loop of main(), *)
(* with the eligibility test of k1Import.py beside it.                     *)
(*                                                                         *)
(* A process is started (FluCard.__init__), beeps once, then polls for     *)
(* ever.  One poll walks the listing item by item; every step of that walk *)
(* that touches the network or the disk is one action, so that a process   *)
(* kill or a failing request can fall between any two of them.             *)
(***************************************************************************)
EXTENDS Integers, Sequences, FiniteSets, TLC

VARIABLES
    pc,           \* where the process is: "stopped", "init", "poll", "eval",
                  \* "beep", "fetch", "record", "persist", "flush"; "decided"
                  \* only where the decision is applied on its own (EligSpec)
    exit,         \* why the process is stopped: "none" (never run / running),
                  \* "killed", "config" (ValueError of startup), "error"
    args,         \* the command line of the last start (args.clean, args.destdir);
                  \* read by the constructor only, dropped when main's loop starts
    flubase,      \* self.flubase, the in-memory watermark (NoMem when no process)
    destdir,      \* self.destdir
    store,        \* the content of FLUBASE_FILE on disk
    now,          \* time.time(), in seconds
    photoList,    \* the listing of the current (or last finished) poll
    idx,          \* position of the for loop in photoList (1-based)
    download,     \* the local variable download of get_new_photos
    \* ---- history variables, read by the properties only ----
    fetched,      \* numbers fetched and persisted since the last reset
    hit9999,      \* lastFile has been "9999" since the last reset
    batch,        \* positions whose downloadPhoto returned True in this poll
    failedAt,     \* position whose downloadPhoto returned False in this poll, or 0
    closureAt,    \* position where this poll hit the rollover limit, or 0
    repeat,       \* this poll got the same listing as the poll before it
    prevFailedAt  \* failedAt of the poll before it (when repeat)

vars == <<pc, exit, args, flubase, destdir, store, now, photoList, idx, download,
          fetched, hit9999, batch, failedAt, closureAt, repeat, prevFailedAt>>

-----------------------------------------------------------------------------
(* Program constants and model bounds *)

MAXNUM == 9999
STALE == 172800

\* Low: the listed sequence numbers are 0..Low and 9999.  MaxLen: the longest
\* listing.  MaxElapsed: how many times two days may pass.  MaxCard: the most
\* files the card comes to hold while it fills in camera order.
Low == 1
MaxLen == 3
MaxElapsed == 1
MaxCard == 4

-----------------------------------------------------------------------------
(* Strings: a Python str is a sequence of one-character strings *)

Digits == <<"0", "1", "2", "3", "4", "5", "6", "7", "8", "9">>

NoneStr == <<"N", "o", "n", "e">>

DigitVal(c) == CHOOSE d \in 0..9 : Digits[d + 1] = c

\* int(s) for a str of decimal digits
RECURSIVE PyInt(_)
PyInt(s) ==
    IF Len(s) = 0 THEN 0
    ELSE 10 * PyInt(SubSeq(s, 1, Len(s) - 1)) + DigitVal(s[Len(s)])

\* str(n) for n >= 0: decimal, no leading zeros
RECURSIVE PyStr(_)
PyStr(n) ==
    IF n < 10 THEN <<Digits[n + 1]>>
    ELSE Append(PyStr(n \div 10), Digits[(n % 10) + 1])

\* Characters 5-8 of the basename the camera gives to file number n ("ABCD0002.JPG")
PhotoName(n) ==
    <<Digits[((n \div 1000) % 10) + 1], Digits[((n \div 100) % 10) + 1],
      Digits[((n \div 10) % 10) + 1], Digits[(n % 10) + 1]>>

\* photoNumber = int(photoName[4:8])
PhotoNumber(photoURL) == PyInt(photoURL)

\* int(s) returns for a str of decimal digits and raises ValueError for a str
\* holding any other letter
IsNumeral(s) ==
    /\ Len(s) > 0
    /\ \A i \in DOMAIN s : \E d \in 0..9 : Digits[d + 1] = s[i]

-----------------------------------------------------------------------------
(* The inputs *)

Nums == (0..Low) \cup {MAXNUM}

Injective(f) == \A i, j \in DOMAIN f : f[i] = f[j] => i = j

\* Characters 5-8 of a basename the camera did not number ("ABCD000x.JPG")
BadName == <<"0", "0", "0", "x">>

\* What a line of the listing can name: a numbered file, or one that is not
Names == { PhotoName(n) : n \in Nums } \cup {BadName}

\* A listing names distinct files; an empty one is reported as None by
\* parse_photo_list_text and is covered by PollNone.
Listings ==
    { g \in UNION { [1..m -> Names] : m \in 1..MaxLen } : Injective(g) }

\* The directories that exist (os.path.isdir)
ExistingDirs == {"A", "B"}

\* -d: not given ("None"), an existing directory, or a path that is no directory
ArgDirs == {"None", "A", "B", "X"}

\* The polling model is started with one directory only
PollDirs == {"None", "A"}

NoArgs == [given |-> FALSE]

NoMem == [process |-> "none"]
NoFile == [file |-> "absent"]
EmptyFile == [file |-> "empty"]
GarbageFile == [file |-> "garbage"]

\* json.load returns a dictionary
Readable(s) == "file" \notin DOMAIN s

IsObject(s) == "lastSeconds" \in DOMAIN s

\* get_flu_base_data on a store file that exists: json.load raises, or
\* flubase["destDir"] (read when -d is not given) or flubase["lastSeconds"]
\* raises KeyError
LoadRaises(s, dir) ==
    \/ ~Readable(s)
    \/ dir = "None" /\ "destDir" \notin DOMAIN s
    \/ "lastSeconds" \notin DOMAIN s

Watermark(fb) == <<fb.firstFile, fb.lastFile, fb.rollover>>

-----------------------------------------------------------------------------
(* The watermark record and the decision, as get_new_photos computes them *)

\* new_flubase_file: the dictionary it builds
NewFlubase(seconds, dir) ==
    [firstFile |-> NoneStr, lastFile |-> NoneStr, rollover |-> FALSE,
     lastSeconds |-> seconds, destDir |-> dir]

\* Mutant: the threshold taken as "more than two days"
IsStale_Strict(curSeconds, lastSeconds) == curSeconds - lastSeconds > STALE

\* get_flu_base_data: curSeconds - lastSeconds >= 172800
IsStale(curSeconds, lastSeconds) == curSeconds - lastSeconds >= STALE

LastNum(fb) == IF fb.lastFile = NoneStr THEN -1 ELSE PyInt(fb.lastFile)

FirstNum(fb) == IF fb.firstFile = NoneStr THEN -1 ELSE PyInt(fb.firstFile)

\* Mutant: "not older than the last one" instead of "newer than the last one"
Download_GE(rollover, photoNumber, lastNum, firstNum) ==
    LET d0 == FALSE
        d1 == IF rollover = FALSE /\ photoNumber >= lastNum /\ photoNumber > firstNum
              THEN TRUE ELSE d0
        d2 == IF rollover /\ ((photoNumber < firstNum /\ photoNumber > lastNum)
                              \/ lastNum = MAXNUM)
              THEN TRUE ELSE d1
    IN  d2

\* Mutant: without rollover only "newer than the first one" is asked
Download_FirstOnly(rollover, photoNumber, lastNum, firstNum) ==
    LET d0 == FALSE
        d1 == IF rollover = FALSE /\ photoNumber > firstNum
              THEN TRUE ELSE d0
        d2 == IF rollover /\ ((photoNumber < firstNum /\ photoNumber > lastNum)
                              \/ lastNum = MAXNUM)
              THEN TRUE ELSE d1
    IN  d2

\* Mutant: the wrapped clause accepts the first file's own number
Download_LE(rollover, photoNumber, lastNum, firstNum) ==
    LET d0 == FALSE
        d1 == IF rollover = FALSE /\ photoNumber > lastNum /\ photoNumber > firstNum
              THEN TRUE ELSE d0
        d2 == IF rollover /\ ((photoNumber <= firstNum /\ photoNumber > lastNum)
                              \/ lastNum = MAXNUM)
              THEN TRUE ELSE d1
    IN  d2

\* The two if statements of fluImport.py that set download
Download(rollover, photoNumber, lastNum, firstNum) ==
    LET d0 == FALSE
        d1 == IF rollover = FALSE /\ photoNumber > lastNum /\ photoNumber > firstNum
              THEN TRUE ELSE d0
        d2 == IF rollover /\ ((photoNumber < firstNum /\ photoNumber > lastNum)
                              \/ lastNum = MAXNUM)
              THEN TRUE ELSE d1
    IN  d2

\* The same two if statements in k1Import.py
K1Download(rollover, photo_number, last_num, first_num) ==
    LET d0 == FALSE
        d1 == IF rollover = FALSE /\ photo_number > last_num /\ photo_number > first_num
              THEN TRUE ELSE d0
        d2 == IF rollover = TRUE /\ ((last_num < photo_number /\ photo_number < first_num)
                                     \/ last_num = MAXNUM)
              THEN TRUE ELSE d1
    IN  d2

\* The head of the loop body for one listed file: lastNum, firstNum, photoNumber
\* and the decision
Decide(fb, photoURL) ==
    Download(fb.rollover, PhotoNumber(photoURL), LastNum(fb), FirstNum(fb))

K1Decide(fb, photo_url) ==
    K1Download(fb.rollover, PhotoNumber(photo_url), LastNum(fb), FirstNum(fb))

\* Mutant: the rollover limit switched off (as the commented-out break of k1Import.py)
RolloverLimit_Off(photoNumber, firstNum) == FALSE

\* if photoNumber == firstNum: the rollover limit
RolloverLimit(photoNumber, firstNum) == photoNumber = firstNum

\* Mutant: firstFile is never set
RecordFetch_KeepFirst(fb, photoNumber) ==
    LET r1 == IF photoNumber = MAXNUM THEN [fb EXCEPT !.rollover = TRUE] ELSE fb
    IN  [r1 EXCEPT !.lastFile = PyStr(photoNumber)]

\* Mutant: rollover is flagged when the counter has restarted (file 0000), not at 9999
RecordFetch_RollAtZero(fb, photoNumber) ==
    LET r1 == IF photoNumber = 0 THEN [fb EXCEPT !.rollover = TRUE] ELSE fb
        r2 == [r1 EXCEPT !.lastFile = PyStr(photoNumber)]
    IN  IF r2.firstFile = NoneStr
        THEN [r2 EXCEPT !.firstFile = PyStr(photoNumber)]
        ELSE r2

\* Mutant: firstFile follows every fetch
RecordFetch_FirstFollows(fb, photoNumber) ==
    LET r1 == IF photoNumber = MAXNUM THEN [fb EXCEPT !.rollover = TRUE] ELSE fb
    IN  [r1 EXCEPT !.lastFile = PyStr(photoNumber), !.firstFile = PyStr(photoNumber)]

\* The three assignments after a download that returned True
RecordFetch(fb, photoNumber) ==
    LET r1 == IF photoNumber = MAXNUM THEN [fb EXCEPT !.rollover = TRUE] ELSE fb
        r2 == [r1 EXCEPT !.lastFile = PyStr(photoNumber)]
    IN  IF r2.firstFile = NoneStr
        THEN [r2 EXCEPT !.firstFile = PyStr(photoNumber)]
        ELSE r2

\* update_flu_base_data: the dictionary it rebuilds
UpdateFlubase(fb, seconds, dir) ==
    [firstFile |-> fb.firstFile, lastFile |-> fb.lastFile, rollover |-> fb.rollover,
     lastSeconds |-> seconds, destDir |-> dir]

-----------------------------------------------------------------------------
\* No process has run yet and there is no store
Init ==
    /\ pc = "stopped"
    /\ exit = "none"
    /\ args = NoArgs
    /\ flubase = NoMem
    /\ destdir = "None"
    /\ store = NoFile
    /\ now = 0
    /\ photoList = <<>>
    /\ idx = 0
    /\ download = FALSE
    /\ fetched = {}
    /\ hit9999 = FALSE
    /\ batch = <<>>
    /\ failedAt = 0
    /\ closureAt = 0
    /\ repeat = FALSE
    /\ prevFailedAt = 0

\* What a process that ends leaves behind: the disk and the clock
Gone(why) ==
    /\ pc' = "stopped"
    /\ exit' = why
    /\ flubase' = NoMem
    /\ destdir' = "None"
    /\ photoList' = <<>>
    /\ idx' = 0
    /\ download' = FALSE
    /\ batch' = <<>>
    /\ failedAt' = 0
    /\ closureAt' = 0
    /\ repeat' = FALSE
    /\ prevFailedAt' = 0

\* The end of __init__: ValueError when self.destdir is no directory, else a
\* constructed FluCard, about to enter main's loop
Constructed(fb, dir) ==
    IF dir \in ExistingDirs
    THEN /\ pc' = "init"
         /\ exit' = "none"
         /\ flubase' = fb
         /\ destdir' = dir
         /\ UNCHANGED <<photoList, idx, download, batch, failedAt, closureAt, repeat,
                        prevFailedAt>>
    ELSE Gone("config")

-----------------------------------------------------------------------------
(* FluCard.__init__ / get_flu_base_data, one action per path through it *)

\* No store (or --clean) and no -d: ValueError, nothing written
StartNoDest ==
    \E clean \in BOOLEAN :
        /\ pc = "stopped"
        /\ store = NoFile \/ clean
        /\ args' = [clean |-> clean, destdir |-> "None"]
        /\ Gone("config")
        /\ UNCHANGED <<store, now, fetched, hit9999>>

\* No store (or --clean) and -d given: new_flubase_file
StartNew(dirs) ==
    \E clean \in BOOLEAN, dir \in dirs \ {"None"} :
        /\ pc = "stopped"
        /\ store = NoFile \/ clean
        /\ args' = [clean |-> clean, destdir |-> dir]
        /\ store' = NewFlubase(now, dir)
        /\ Constructed(NewFlubase(now, dir), dir)
        /\ fetched' = {}
        /\ hit9999' = FALSE
        /\ UNCHANGED now

\* A store that json.load cannot read, or that lacks a key get_flu_base_data
\* reads: the exception ends the process
StartUnreadable(dirs) ==
    \E dir \in dirs :
        /\ pc = "stopped"
        /\ store # NoFile
        /\ LoadRaises(store, dir)
        /\ args' = [clean |-> FALSE, destdir |-> dir]
        /\ Gone("error")
        /\ UNCHANGED <<store, now, fetched, hit9999>>

\* Mutant: a start that finds a store does not read the watermark out of it
StartLoad_Fresh(dirs) ==
    \E dir \in dirs :
        /\ pc = "stopped"
        /\ store # NoFile
        /\ ~LoadRaises(store, dir)
        /\ ~IsStale(now, store.lastSeconds)
        /\ args' = [clean |-> FALSE, destdir |-> dir]
        /\ LET d == IF dir = "None" THEN store.destDir ELSE dir IN
            Constructed(NewFlubase(store.lastSeconds, d), d)
        /\ UNCHANGED <<store, now, fetched, hit9999>>

\* A store, read, not stale: returned as it is
StartLoad(dirs) ==
    \E dir \in dirs :
        /\ pc = "stopped"
        /\ store # NoFile
        /\ ~LoadRaises(store, dir)
        /\ ~IsStale(now, store.lastSeconds)
        /\ args' = [clean |-> FALSE, destdir |-> dir]
        /\ Constructed(store, IF dir = "None" THEN store.destDir ELSE dir)
        /\ UNCHANGED <<store, now, fetched, hit9999>>

\* A store, read, two days old or more: new_flubase_file
StartStale(dirs) ==
    \E dir \in dirs :
        /\ pc = "stopped"
        /\ store # NoFile
        /\ ~LoadRaises(store, dir)
        /\ IsStale(now, store.lastSeconds)
        /\ args' = [clean |-> FALSE, destdir |-> dir]
        /\ LET d == IF dir = "None" THEN store.destDir ELSE dir IN
            /\ store' = NewFlubase(now, d)
            /\ Constructed(NewFlubase(now, d), d)
        /\ fetched' = {}
        /\ hit9999' = FALSE
        /\ UNCHANGED now

\* main: fc.flucard_play_beep() before the loop; requests.get may raise
StartupBeep ==
    /\ pc = "init"
    /\ args' = NoArgs
    /\ \/ /\ pc' = "poll"
          /\ UNCHANGED <<exit, flubase, destdir, photoList, idx, download, batch,
                         failedAt, closureAt, repeat, prevFailedAt>>
       \/ Gone("error")
    /\ UNCHANGED <<store, now, fetched, hit9999>>

-----------------------------------------------------------------------------
(* get_new_photos *)

\* get_photo_list returned a listing, one of ls
Poll(ls) ==
    \E l \in ls :
        /\ pc = "poll"
        /\ photoList' = l
        /\ idx' = 1
        /\ pc' = "eval"
        /\ download' = FALSE
        /\ repeat' = (l = photoList)
        /\ prevFailedAt' = IF l = photoList THEN failedAt ELSE 0
        /\ batch' = <<>>
        /\ failedAt' = 0
        /\ closureAt' = 0
        /\ UNCHANGED <<exit, args, flubase, destdir, store, now, fetched, hit9999>>

PollList == Poll(Listings)

\* get_photo_list returned None (no connection, status not 200, empty listing):
\* get_new_photos returns, main sleeps
PollNone ==
    /\ pc = "poll"
    /\ photoList' = <<>>
    /\ idx' = 0
    /\ download' = FALSE
    /\ repeat' = FALSE
    /\ prevFailedAt' = 0
    /\ batch' = <<>>
    /\ failedAt' = 0
    /\ closureAt' = 0
    /\ UNCHANGED <<pc, exit, args, flubase, destdir, store, now, fetched, hit9999>>

\* The for loop moves to the next item, or ends and main sleeps
NextItem ==
    IF idx < Len(photoList)
    THEN pc' = "eval" /\ idx' = idx + 1
    ELSE pc' = "poll" /\ idx' = idx

\* The loop is left by break: get_new_photos returns, main sleeps.  (The local
\* download is written FALSE by the actions that end an iteration after a
\* download decision: line 155 resets it, or the function returns.)
Break ==
    /\ pc' = "poll"
    /\ UNCHANGED idx

\* One pass through the head of the loop body: the decision, then not eligible
\* (next item), or the rollover limit, or on to downloadPhoto
Evaluate ==
    /\ pc = "eval"
    /\ IsNumeral(photoList[idx])
    /\ download' = Decide(flubase, photoList[idx])
    /\ IF ~download'
       THEN NextItem /\ UNCHANGED closureAt
       ELSE IF RolloverLimit(PhotoNumber(photoList[idx]), FirstNum(flubase))
            THEN pc' = "beep" /\ closureAt' = idx /\ UNCHANGED idx
            ELSE pc' = "fetch" /\ UNCHANGED <<idx, closureAt>>
    /\ UNCHANGED <<exit, args, flubase, destdir, store, now, photoList, fetched,
                   hit9999, batch, failedAt, repeat, prevFailedAt>>

\* photoNumber = int(photoName[4:8]) raises ValueError: nothing catches it
EvaluateRaises ==
    /\ pc = "eval"
    /\ ~IsNumeral(photoList[idx])
    /\ Gone("error")
    /\ UNCHANGED <<args, store, now, fetched, hit9999>>

\* Mutant: the rollover limit starts a new cycle (a new store is written)
Beep_Reset ==
    /\ pc = "beep"
    /\ Break
    /\ download' = FALSE
    /\ flubase' = NewFlubase(now, destdir)
    /\ store' = flubase'
    /\ UNCHANGED <<exit, args, destdir, now, photoList, fetched, hit9999, batch,
                   failedAt, closureAt, repeat, prevFailedAt>>

\* for _ in range(1, 5): self.flucard_play_beep(); break -- a request may raise
Beep ==
    /\ pc = "beep"
    /\ \/ /\ Break
          /\ download' = FALSE
          /\ UNCHANGED <<exit, flubase, destdir, photoList, batch, failedAt,
                         closureAt, repeat, prevFailedAt>>
       \/ Gone("error")
    /\ UNCHANGED <<args, store, now, fetched, hit9999>>

\* downloadPhoto wrote the file and returned True
FetchOk ==
    /\ pc = "fetch"
    /\ pc' = "record"
    /\ batch' = Append(batch, idx)
    /\ UNCHANGED <<exit, args, flubase, destdir, store, now, photoList, idx, download,
                   fetched, hit9999, failedAt, closureAt, repeat, prevFailedAt>>

\* Mutant: a failed download skips the item (continue) instead of leaving the loop
FetchFailed_Continue ==
    /\ pc = "fetch"
    /\ NextItem
    /\ download' = FALSE
    /\ failedAt' = idx
    /\ UNCHANGED <<exit, args, flubase, destdir, store, now, photoList, fetched,
                   hit9999, batch, closureAt, repeat, prevFailedAt>>

\* Mutant: a failed download still calls update_flu_base_data before the break
FetchFailed_Touch ==
    /\ pc = "fetch"
    /\ Break
    /\ download' = FALSE
    /\ failedAt' = idx
    /\ flubase' = UpdateFlubase(flubase, now, destdir)
    /\ store' = flubase'
    /\ UNCHANGED <<exit, args, destdir, now, photoList, fetched, hit9999, batch,
                   closureAt, repeat, prevFailedAt>>

\* downloadPhoto could not write the file and returned False: break
FetchFailed ==
    /\ pc = "fetch"
    /\ Break
    /\ download' = FALSE
    /\ failedAt' = idx
    /\ UNCHANGED <<exit, args, flubase, destdir, store, now, photoList, fetched,
                   hit9999, batch, closureAt, repeat, prevFailedAt>>

\* downloadPhoto: requests.get(photoURL) stands outside the try and raises
FetchRaises ==
    /\ pc = "fetch"
    /\ Gone("error")
    /\ UNCHANGED <<args, store, now, fetched, hit9999>>

\* rollover, lastFile, firstFile are set in self.flubase
Record ==
    /\ pc = "record"
    /\ flubase' = RecordFetch(flubase, PhotoNumber(photoList[idx]))
    /\ hit9999' = (hit9999 \/ flubase'.lastFile = PyStr(MAXNUM))
    /\ pc' = "persist"
    /\ UNCHANGED <<exit, args, destdir, store, now, photoList, idx, download, fetched,
                   batch, failedAt, closureAt, repeat, prevFailedAt>>

\* update_flu_base_data: the dictionary is rebuilt and open(FLUBASE_FILE, "w")
\* truncates the file
PersistOpen ==
    /\ pc = "persist"
    /\ flubase' = UpdateFlubase(flubase, now, destdir)
    /\ store' = EmptyFile
    /\ pc' = "flush"
    /\ UNCHANGED <<exit, args, destdir, now, photoList, idx, download, fetched,
                   hit9999, batch, failedAt, closureAt, repeat, prevFailedAt>>

\* update_flu_base_data: json.dump and the close of the file; the loop goes on
PersistWrite ==
    /\ pc = "flush"
    /\ store' = flubase
    /\ fetched' = fetched \cup {PhotoNumber(photoList[idx])}
    /\ NextItem
    /\ download' = FALSE
    /\ UNCHANGED <<exit, args, flubase, destdir, now, photoList, hit9999, batch,
                   failedAt, closureAt, repeat, prevFailedAt>>

-----------------------------------------------------------------------------
(* The environment *)

\* The process is terminated from outside, at any point
Kill ==
    /\ pc # "stopped"
    /\ args' = NoArgs
    /\ Gone("killed")
    /\ UNCHANGED <<store, now, fetched, hit9999>>

\* Two days pass while no process runs, or while main sleeps between two polls
Elapse ==
    /\ pc \in {"stopped", "poll"}
    /\ now + STALE <= MaxElapsed * STALE
    /\ now' = now + STALE
    /\ UNCHANGED <<pc, exit, args, flubase, destdir, store, photoList, idx, download,
                   fetched, hit9999, batch, failedAt, closureAt, repeat, prevFailedAt>>

Next ==
    \/ StartNoDest
    \/ StartNew(PollDirs)
    \/ StartUnreadable(PollDirs)
    \/ StartLoad(PollDirs)
    \/ StartStale(PollDirs)
    \/ StartupBeep
    \/ PollList
    \/ PollNone
    \/ Evaluate
    \/ EvaluateRaises
    \/ Beep
    \/ FetchOk
    \/ FetchFailed
    \/ FetchRaises
    \/ Record
    \/ PersistOpen
    \/ PersistWrite
    \/ Kill
    \/ Elapse

Spec == Init /\ [][Next]_vars

-----------------------------------------------------------------------------
(* The decision on its own: every watermark over the numbers below, one file *)

\* The numbers of the documented examples, beside the listed ones
ExampleNums == {40, 45, 50, 55, 90, 100, 150}

EligNums == Nums \cup ExampleNums

EligFiles == {NoneStr} \cup { PyStr(n) : n \in EligNums }

EligInit ==
    /\ pc = "eval"
    /\ exit = "none"
    /\ args = NoArgs
    /\ \E f \in EligFiles, l \in EligFiles, r \in BOOLEAN :
           flubase = [firstFile |-> f, lastFile |-> l, rollover |-> r,
                      lastSeconds |-> 0, destDir |-> "A"]
    /\ destdir = "A"
    /\ store = flubase
    /\ now = 0
    /\ \E n \in EligNums : photoList = <<PhotoName(n)>>
    /\ idx = 1
    /\ download = FALSE
    /\ fetched = {}
    /\ hit9999 = FALSE
    /\ batch = <<>>
    /\ failedAt = 0
    /\ closureAt = 0
    /\ repeat = FALSE
    /\ prevFailedAt = 0

\* fluImport.py: the decision for photoList[idx], nothing else
ApplyDecide ==
    /\ pc = "eval"
    /\ download' = Decide(flubase, photoList[idx])
    /\ pc' = "decided"
    /\ UNCHANGED <<exit, args, flubase, destdir, store, now, photoList, idx, fetched,
                   hit9999, batch, failedAt, closureAt, repeat, prevFailedAt>>

\* k1Import.py: the decision for photo_list[idx], nothing else
K1ApplyDecide ==
    /\ pc = "eval"
    /\ download' = K1Decide(flubase, photoList[idx])
    /\ pc' = "decided"
    /\ UNCHANGED <<exit, args, flubase, destdir, store, now, photoList, idx, fetched,
                   hit9999, batch, failedAt, closureAt, repeat, prevFailedAt>>

EligNext == ApplyDecide \/ K1ApplyDecide

EligSpec == EligInit /\ [][EligNext]_vars

-----------------------------------------------------------------------------
(* The constructor on its own: every store the polling loop can leave behind, *)
(* every clock reading around the two-day threshold, every command line       *)

\* The watermarks update_flu_base_data can have written
LoadWatermarks ==
    {<<NoneStr, NoneStr, FALSE>>}
    \cup { <<PyStr(q[1]), PyStr(q[2]), FALSE>> :
             q \in { r \in Nums \X Nums : r[1] <= r[2] /\ r[2] # MAXNUM } }
    \cup { <<PyStr(q[1]), PyStr(q[2]), TRUE>> :
             q \in { r \in Nums \X Nums : r[1] # r[2] \/ r[1] = MAXNUM } }

StoredTimes == { k * STALE : k \in 0..MaxElapsed }

LoadTimes == { t + d : t \in StoredTimes, d \in {0, 1, STALE - 1, STALE, STALE + 1} }

\* Files found at start: none, one that is no JSON, one the program wrote, or
\* a JSON object without destDir or without lastSeconds
LoadStores ==
    {NoFile, EmptyFile, GarbageFile}
    \cup { [firstFile |-> w[1], lastFile |-> w[2], rollover |-> w[3],
            lastSeconds |-> t, destDir |-> d] :
             w \in LoadWatermarks, t \in StoredTimes, d \in ArgDirs \ {"None"} }
    \cup { [firstFile |-> w[1], lastFile |-> w[2], rollover |-> w[3],
            lastSeconds |-> t] :
             w \in LoadWatermarks, t \in StoredTimes }
    \cup { [firstFile |-> w[1], lastFile |-> w[2], rollover |-> w[3],
            destDir |-> d] :
             w \in LoadWatermarks, d \in ArgDirs \ {"None"} }

LoadInit ==
    /\ pc = "stopped"
    /\ exit = "none"
    /\ args = NoArgs
    /\ flubase = NoMem
    /\ destdir = "None"
    /\ store \in LoadStores
    /\ now \in LoadTimes
    /\ photoList = <<>>
    /\ idx = 0
    /\ download = FALSE
    /\ fetched = {}
    /\ hit9999 = FALSE
    /\ batch = <<>>
    /\ failedAt = 0
    /\ closureAt = 0
    /\ repeat = FALSE
    /\ prevFailedAt = 0

LoadNext ==
    \/ StartNoDest
    \/ StartNew(ArgDirs)
    \/ StartUnreadable(ArgDirs)
    \/ StartLoad(ArgDirs)
    \/ StartStale(ArgDirs)

LoadSpec == LoadInit /\ [][LoadNext]_vars

-----------------------------------------------------------------------------
(* The polling loop of one process beside a card that fills in camera order:   *)
(* every request is answered, every file is written, nothing stops the loop.   *)

\* The number the camera gives to its first file
WrapStarts == {MAXNUM - 1, MAXNUM}

\* The card after k shots from number s on: s, s+1, ... wrapping from 9999 to 0000
Card(k, s) == [i \in 1..k |-> PhotoName((s + i - 1) % (MAXNUM + 1))]

\* What the next poll can list when the poll before it listed l: the same
\* files with those shot since appended
Grown(l) ==
    IF l = <<>>
    THEN { Card(k, s) : k \in 1..MaxCard, s \in WrapStarts }
    ELSE { Card(k, PhotoNumber(l[1])) : k \in Len(l)..MaxCard }

\* Every number the card can come to hold
WrapNums == { (s + i) % (MAXNUM + 1) : s \in WrapStarts, i \in 0..(MaxCard - 1) }

\* A process constructed on a new store, past its startup beep
WrapInit ==
    /\ pc = "poll"
    /\ exit = "none"
    /\ args = NoArgs
    /\ flubase = NewFlubase(0, "A")
    /\ destdir = "A"
    /\ store = flubase
    /\ now = 0
    /\ photoList = <<>>
    /\ idx = 0
    /\ download = FALSE
    /\ fetched = {}
    /\ hit9999 = FALSE
    /\ batch = <<>>
    /\ failedAt = 0
    /\ closureAt = 0
    /\ repeat = FALSE
    /\ prevFailedAt = 0

\* get_photo_list returns what the card holds by now
WrapPoll == Poll(Grown(photoList))

\* The rollover limit when every beep request is answered
WrapBeep == Beep /\ pc' = "poll"

WrapNext ==
    \/ WrapPoll
    \/ Evaluate
    \/ WrapBeep
    \/ FetchOk
    \/ Record
    \/ PersistOpen
    \/ PersistWrite

\* main's loop never ends by itself: after every sleep comes the next poll, and
\* every statement of a poll is followed by the next one
WrapSpec == WrapInit /\ [][WrapNext]_vars /\ WF_vars(WrapNext)

-----------------------------------------------------------------------------
(* One whole poll as a function, for each of the two programs: the for loop   *)
(* of get_new_photos over listing l from position i on, when the download at  *)
(* position f returns False and every other one returns True.  The result is  *)
(* the watermark the loop ends with and the positions it downloaded.          *)

RECURSIVE FluRun(_, _, _, _)
FluRun(fb, l, i, f) ==
    IF i > Len(l) THEN [flubase |-> fb, batch |-> <<>>]
    ELSE IF ~Decide(fb, l[i]) THEN FluRun(fb, l, i + 1, f)
    ELSE IF RolloverLimit(PhotoNumber(l[i]), FirstNum(fb))
         THEN [flubase |-> fb, batch |-> <<>>]
    ELSE IF i = f THEN [flubase |-> fb, batch |-> <<>>]
    ELSE LET r == FluRun(RecordFetch(fb, PhotoNumber(l[i])), l, i + 1, f)
         IN  [flubase |-> r.flubase, batch |-> <<i>> \o r.batch]

\* k1Import.py: the same loop; at the rollover limit it prints and goes on to
\* download_photo (the beep and the break are commented out)
RECURSIVE K1Run(_, _, _, _)
K1Run(fb, l, i, f) ==
    IF i > Len(l) THEN [flubase |-> fb, batch |-> <<>>]
    ELSE IF ~K1Decide(fb, l[i]) THEN K1Run(fb, l, i + 1, f)
    ELSE IF i = f THEN [flubase |-> fb, batch |-> <<>>]
    ELSE LET r == K1Run(RecordFetch(fb, PhotoNumber(l[i])), l, i + 1, f)
         IN  [flubase |-> r.flubase, batch |-> <<i>> \o r.batch]

\* Listings of numbered files only
NumberedListings == { l \in Listings : \A i \in DOMAIN l : IsNumeral(l[i]) }

\* Any watermark a store can hold, any numbered listing, any failing position
\* (failedAt = 0: no download fails)
RunInit ==
    /\ pc = "run"
    /\ exit = "none"
    /\ args = NoArgs
    /\ \E w \in LoadWatermarks :
           flubase = [firstFile |-> w[1], lastFile |-> w[2], rollover |-> w[3],
                      lastSeconds |-> 0, destDir |-> "A"]
    /\ destdir = "A"
    /\ store = flubase
    /\ now = 0
    /\ photoList \in NumberedListings
    /\ idx = 1
    /\ download = FALSE
    /\ fetched = {}
    /\ hit9999 = FALSE
    /\ batch = <<>>
    /\ failedAt \in 0..Len(photoList)
    /\ closureAt = 0
    /\ repeat = FALSE
    /\ prevFailedAt = 0

\* fluImport.py runs the poll
ApplyFluRun ==
    /\ pc = "run"
    /\ flubase' = FluRun(flubase, photoList, 1, failedAt).flubase
    /\ batch' = FluRun(flubase, photoList, 1, failedAt).batch
    /\ pc' = "ran"
    /\ UNCHANGED <<exit, args, destdir, store, now, photoList, idx, download, fetched,
                   hit9999, failedAt, closureAt, repeat, prevFailedAt>>

\* k1Import.py runs the poll
ApplyK1Run ==
    /\ pc = "run"
    /\ flubase' = K1Run(flubase, photoList, 1, failedAt).flubase
    /\ batch' = K1Run(flubase, photoList, 1, failedAt).batch
    /\ pc' = "ran"
    /\ UNCHANGED <<exit, args, destdir, store, now, photoList, idx, download, fetched,
                   hit9999, failedAt, closureAt, repeat, prevFailedAt>>

RunNext == ApplyFluRun \/ ApplyK1Run

RunSpec == RunInit /\ [][RunNext]_vars

-----------------------------------------------------------------------------
(* Properties *)

Running == flubase # NoMem

Fresh(fb) == fb.firstFile = NoneStr /\ fb.lastFile = NoneStr /\ fb.rollover = FALSE

\* The number of the file the loop is at (-2, no file's number and no sentinel
\* of the program, when the name holds none)
CurNum == IF IsNumeral(photoList[idx]) THEN PhotoNumber(photoList[idx]) ELSE -2

\* C1 (as claimed): with no reset in between and every listing naming distinct
\* numbers, a file whose fetch succeeded and was persisted is never fetched again:
\* whenever downloadPhoto has just returned True for a file, that file's number is
\* not among those fetched and persisted since the last reset.
C1_NoRecopy == pc = "record" => CurNum \notin fetched

\* C2 (as claimed): a poll that gets the same listing as the poll before it, when
\* no fetch of that poll failed, fetches nothing.
C2_Idempotent == (repeat /\ prevFailedAt = 0) => batch = <<>>

\* C3: the decision for file number n under watermark (first, last, rollover),
\* none read as -1, is to download exactly when (rollover is false and n > last
\* and n > first) or (rollover is true and ((last < n and n < first) or
\* last = 9999)); in fluImport.py and in k1Import.py alike.
C3_Eligibility ==
    pc = "decided" =>
        LET n == CurNum
            last == LastNum(flubase)
            first == FirstNum(flubase)
        IN  download <=>
              \/ ~flubase.rollover /\ n > last /\ n > first
              \/ flubase.rollover /\ ((last < n /\ n < first) \/ last = 9999)

\* The documented examples: last=100, first=50, no rollover: 150 is eligible
C3_Witness ==
    /\ pc = "decided"
    /\ flubase.firstFile = PyStr(50)
    /\ flubase.lastFile = PyStr(100)
    /\ ~flubase.rollover
    /\ CurNum = 150
    /\ download

\* C4 (as claimed): whenever rollover is true and firstSeen = f, the loop reaching
\* a listed file numbered f raises the rollover-limit signal, for every lastSeen.
C4_ClosureAnyLast ==
    [][(pc = "eval" /\ flubase.rollover /\ CurNum = FirstNum(flubase))
         => pc' \in {"beep", "stopped"}]_vars

\* C4 (amended): when rollover is true, firstSeen = f and lastSeen = 9999, the
\* loop reaching a listed file numbered f raises the signal and leaves the loop:
\* neither that file nor any item after it is fetched in this poll.  When
\* lastSeen is not 9999 the file numbered f is not fetched either, but no signal
\* is raised and the loop goes on.
C4_ClosureAt9999 ==
    /\ [](closureAt # 0 =>
            /\ pc \in {"beep", "poll"}
            /\ idx = closureAt
            /\ \A k \in 1..Len(batch) : batch[k] < closureAt)
    /\ [][(pc = "eval" /\ flubase.rollover /\ CurNum = FirstNum(flubase))
            => IF LastNum(flubase) = 9999
               THEN pc' = "stopped" \/ (pc' = "beep" /\ closureAt' = idx)
               ELSE pc' \notin {"beep", "fetch"} /\ closureAt' = 0]_vars

\* The signal was raised before the end of a listing, and the poll is over
C4_Witness ==
    /\ pc = "poll"
    /\ closureAt # 0
    /\ closureAt < Len(photoList)
    /\ flubase.rollover
    /\ LastNum(flubase) = 9999

\* C5: when downloadPhoto returns False the in-memory watermark and the store
\* stay as they were before that item, the loop is left and no later item of the
\* poll is fetched; what was fetched earlier in the poll stays recorded.
C5_FailureHalts ==
    /\ [](failedAt # 0 =>
            /\ pc = "poll"
            /\ idx = failedAt
            /\ \A k \in 1..Len(batch) : batch[k] < failedAt
            /\ IsObject(store) /\ Watermark(store) = Watermark(flubase)
            /\ batch # <<>> =>
                 LastNum(flubase) = PhotoNumber(photoList[batch[Len(batch)]]))
    /\ [][(pc = "fetch" /\ failedAt' # 0)
            => flubase' = flubase /\ store' = store /\ pc' = "poll"]_vars

\* The second of three items failed after the first was fetched
C5_Witness ==
    /\ failedAt = 2
    /\ batch = <<1>>
    /\ Len(photoList) = 3
    /\ pc = "poll"

\* C6 (as claimed): when the fetch of item x failed in one poll, the next poll
\* with the same listing fetches x first: no item before it is fetched, no
\* rollover-limit signal stops the loop before it, and the poll does not end
\* without having attempted x.
C6_RetryFirst ==
    (repeat /\ prevFailedAt # 0) =>
        /\ closureAt = 0
        /\ batch # <<>> => batch[1] = prevFailedAt
        /\ (batch = <<>> /\ failedAt # 0) => failedAt = prevFailedAt
        /\ pc = "poll" => (batch # <<>> \/ failedAt # 0)

\* C7 (as claimed): at every moment of a running process the persisted
\* (firstFile, lastFile, rollover) equals the in-memory watermark, or lags it by
\* exactly the one item that has been recorded in memory and not yet written.
C7_PersistLag ==
    (Running /\ pc # "init") =>
        /\ IsObject(store)
        /\ \/ Watermark(store) = Watermark(flubase)
           \/ /\ pc = "persist"
              /\ Watermark(RecordFetch(store, CurNum)) = Watermark(flubase)

C9_FirstRun ==
    /\ [][(pc = "eval" /\ Fresh(flubase)) => pc' \in {"fetch", "stopped"}]_vars
    /\ [][(pc = "record" /\ Fresh(flubase) /\ pc' = "persist") =>
            /\ FirstNum(flubase') = CurNum
            /\ LastNum(flubase') = CurNum
            /\ flubase'.rollover = (CurNum = 9999)]_vars
    /\ [][(pc = "flush" /\ fetched = {} /\ pc' # "stopped") =>
            /\ FirstNum(store') = CurNum
            /\ LastNum(store') = CurNum
            /\ store'.rollover = (CurNum = 9999)]_vars

\* The first file fetched after a reset was 9999
C9_Witness ==
    /\ pc = "poll"
    /\ fetched = {9999}
    /\ FirstNum(store) = 9999
    /\ LastNum(store) = 9999
    /\ store.rollover

\* C10: rollover is true, in memory or in the store, only if lastFile has been
\* 9999 since the last reset; within a process it never returns to false, and in
\* the store it returns to false only when a start writes a new store.
C10_Rollover ==
    /\ []((Running /\ flubase.rollover) => hit9999)
    /\ []((IsObject(store) /\ store.rollover) => hit9999)
    /\ [][(Running /\ flubase.rollover /\ flubase' # NoMem) => flubase'.rollover]_vars
    /\ [][(IsObject(store) /\ store.rollover /\ IsObject(store') /\ ~store'.rollover)
            => (pc = "stopped" /\ pc' = "init" /\ store' = NewFlubase(now, destdir'))]_vars

\* Rollover outlives 9999: it is set, persisted, and lastFile has moved on
C10_Witness ==
    /\ pc = "poll"
    /\ flubase.rollover
    /\ store.rollover
    /\ LastNum(flubase) = 0

\* C11 (as claimed): firstSeen, once set, keeps its value within a process, and
\* through every restart that does not reset: when a process ends with firstSeen
\* set in memory and leaves a store that the next start can load, that store
\* holds the same firstFile.
C11_WrittenOnce ==
    /\ [][(Running /\ flubase.firstFile # NoneStr /\ flubase' # NoMem)
            => flubase'.firstFile = flubase.firstFile]_vars
    /\ [][(Running /\ flubase.firstFile # NoneStr /\ flubase' = NoMem
              /\ IsObject(store))
            => store.firstFile = flubase.firstFile]_vars

\* C11 (amended): within a process firstSeen changes only from none to n, at the
\* recording of a successful fetch of file n, and then never again; the
\* persisted firstFile, once it is not none, agrees with the one in memory and
\* changes only when a start writes a new store; a start that does not reset
\* loads the persisted value.  (A firstSeen that was set in memory and not yet
\* persisted when the process ended is not kept.)
C11_WrittenOncePersisted ==
    /\ [][(Running /\ flubase.firstFile # NoneStr /\ flubase' # NoMem)
            => flubase'.firstFile = flubase.firstFile]_vars
    /\ [][(Running /\ flubase.firstFile = NoneStr /\ flubase' # NoMem
              /\ flubase'.firstFile # NoneStr)
            => (pc = "record" /\ FirstNum(flubase') = CurNum)]_vars
    /\ []((Running /\ IsObject(store) /\ store.firstFile # NoneStr)
            => flubase.firstFile = store.firstFile)
    /\ [][(IsObject(store) /\ store.firstFile # NoneStr /\ IsObject(store')
              /\ store'.firstFile # store.firstFile)
            => (pc = "stopped" /\ pc' = "init"
                /\ store' = NewFlubase(now, destdir'))]_vars
    /\ [][(pc = "stopped" /\ pc' = "init" /\ store' = store)
            => flubase'.firstFile = store.firstFile]_vars

\* A start that did not reset has loaded a firstSeen that lastSeen has left behind
C11_Witness ==
    /\ pc = "init"
    /\ flubase.firstFile # NoneStr
    /\ flubase.lastFile # flubase.firstFile
    /\ store = flubase

\* INIT (0): no firstSeen; ACTIVE (1): firstSeen set, rollover false; WRAPPED (2):
\* rollover true
Phase(fb) == IF fb.rollover THEN 2 ELSE IF fb.firstFile # NoneStr THEN 1 ELSE 0

\* C12: within a process the watermark's phase never decreases and changes only
\* when a fetch is recorded (to WRAPPED when the file is 9999, else from INIT to
\* ACTIVE); the rollover-limit signal changes neither the in-memory nor the
\* persisted state; sleeping between polls, for two days or more, changes
\* neither; the persisted state returns to INIT only at a start with --clean or
\* with now - lastSeconds >= 172800.
C12_Forward ==
    /\ [][(Running /\ flubase' # NoMem) => Phase(flubase') >= Phase(flubase)]_vars
    /\ [][(Running /\ flubase' # NoMem /\ Phase(flubase') # Phase(flubase))
            => (pc = "record" /\ Phase(flubase') = IF CurNum = 9999 THEN 2 ELSE 1)]_vars
    /\ [][(pc = "beep" \/ pc' = "beep")
            => (store' = store /\ flubase' \in {flubase, NoMem})]_vars
    /\ [][(pc = "poll" /\ pc' = "poll") => (flubase' = flubase /\ store' = store)]_vars
    /\ [][(IsObject(store) /\ Phase(store) > 0 /\ IsObject(store')
              /\ Phase(store') = 0)
            => (pc = "stopped" /\ pc' = "init"
                /\ (args'.clean \/ now - store.lastSeconds >= 172800))]_vars

\* A poll ended at the rollover limit, two days and more have passed since the
\* last fetch, and the process still holds its WRAPPED state
C12_Witness ==
    /\ pc = "poll"
    /\ closureAt # 0
    /\ Phase(flubase) = 2
    /\ store = flubase
    /\ now - flubase.lastSeconds >= 172800

\* C13 (as claimed): once polling has started, a transport failure while a file
\* is fetched or while the rollover-limit beep is sent does not end the process:
\* from those two points the process stops only when it is killed.
C13_TransportAbsorbed ==
    [][(pc \in {"fetch", "beep"} /\ pc' = "stopped") => exit' = "killed"]_vars

\* C14 (as claimed): a start that finds a store file that is no JSON, or a JSON
\* object without lastSeconds, and is given an existing directory, goes on like a
\* start that finds no store: a constructed process with a fresh watermark.
C14_CorruptAsAbsent ==
    [][(pc = "stopped" /\ store # NoFile
          /\ (~Readable(store) \/ "lastSeconds" \notin DOMAIN store)
          /\ args'.destdir \in ExistingDirs)
         => (pc' = "init" /\ Fresh(flubase'))]_vars

\* C15 (as claimed): a start that finds a store holding a JSON object without
\* destDir goes on like a start that finds no store, whatever watermark the
\* object holds: without -d the process stops before polling, with -d (an
\* existing directory) it is constructed with a fresh watermark.
C15_NoDestDirAsAbsent ==
    [][(pc = "stopped" /\ IsObject(store) /\ "destDir" \notin DOMAIN store)
         => IF args'.destdir = "None"
            THEN pc' = "stopped" /\ exit' \in {"config", "error"}
            ELSE args'.destdir \in ExistingDirs
                   => (pc' = "init" /\ Fresh(flubase'))]_vars

\* C16 (as claimed): a start without -d proceeds with the stored directory
\* whenever the store is a JSON object that provides a destDir (an existing
\* directory, and lastSeconds beside it), with or without --clean; otherwise it
\* stops before any poll.
C16_DestFirstRunOnly ==
    [][(pc = "stopped" /\ args'.destdir = "None")
         => IF /\ IsObject(store)
               /\ "destDir" \in DOMAIN store
               /\ store.destDir \in ExistingDirs
            THEN pc' = "init" /\ destdir' = store.destDir
            ELSE pc' = "stopped" /\ exit' \in {"config", "error"}]_vars

\* C17 (as claimed): when the loop reaches a listed file whose characters 5-8 are
\* not four decimal digits, the process does not end with an error; it fetches
\* nothing for that file, leaves the watermark and the store as they are and
\* goes on to the next item of the listing.
C17_MalformedSkipped ==
    [][(pc = "eval" /\ ~IsNumeral(photoList[idx]))
         => /\ exit' # "error"
            /\ pc' # "stopped" =>
                 /\ flubase' = flubase /\ store' = store /\ batch' = batch
                 /\ pc' = IF idx < Len(photoList) THEN "eval" ELSE "poll"]_vars

\* C18: inside a running process the in-memory watermark and the store change
\* only in the recording and persisting of a file whose downloadPhoto has
\* returned True in this poll, so a poll without a successful fetch leaves both
\* as they were, lastSeconds included; a process that ends leaves the store as
\* it is; lastSeconds in memory changes only in update_flu_base_data after a
\* successful fetch, and a persisted lastSeconds is replaced by another only
\* through that write or when a start creates a new store.
C18_NoFetchNoWrite ==
    /\ [][(Running /\ flubase' # NoMem /\ (flubase' # flubase \/ store' # store))
            => (pc \in {"record", "persist", "flush"} /\ batch # <<>>)]_vars
    /\ [][(Running /\ flubase' = NoMem) => store' = store]_vars
    /\ [][(Running /\ flubase' # NoMem /\ flubase'.lastSeconds # flubase.lastSeconds)
            => (pc = "persist" /\ batch # <<>> /\ flubase'.lastSeconds = now)]_vars
    /\ [][(IsObject(store) /\ IsObject(store')
              /\ store'.lastSeconds # store.lastSeconds)
            => (pc = "stopped" /\ pc' = "init" /\ store' = NewFlubase(now, destdir'))]_vars
    /\ [][(pc = "flush" /\ IsObject(store')) => store' = flubase]_vars

\* A poll whose first attempted fetch failed is over, two days after the last
\* write of the store, and lastSeconds is still the old one
C18_Witness ==
    /\ pc = "poll"
    /\ failedAt # 0
    /\ batch = <<>>
    /\ store = flubase
    /\ now - store.lastSeconds >= 172800

\* C19 (as claimed): a start that does not reset and finds a store with
\* destDir = D, an existing directory, runs with D as the directory its fetched
\* files are written to, whatever -d it is given.
C19_DestFixed ==
    [][(pc = "stopped" /\ IsObject(store) /\ "destDir" \in DOMAIN store
          /\ store.destDir \in ExistingDirs /\ pc' = "init" /\ store' = store)
         => destdir' = store.destDir]_vars

\* The card lists a file numbered n
Listed(n) == \E i \in DOMAIN photoList : photoList[i] = PhotoName(n)

\* C20 (as claimed): from a fresh state, with a card that fills in camera order
\* across the wrap from 9999 to 0000, polls taken at any point of that growth
\* and every fetch succeeding, every file the card lists is eventually fetched
\* and recorded.
C20_Progress == \A n \in WrapNums : Listed(n) ~> (n \in fetched)

\* C21 (as claimed): from every watermark, for every listing and every failing
\* download, the loop of fluImport.py and the loop of k1Import.py download the
\* same files in the same order and end with the same firstFile, lastFile and
\* rollover.
C21_SameEngine ==
    pc = "run" =>
        /\ FluRun(flubase, photoList, 1, failedAt).batch
             = K1Run(flubase, photoList, 1, failedAt).batch
        /\ Watermark(FluRun(flubase, photoList, 1, failedAt).flubase)
             = Watermark(K1Run(flubase, photoList, 1, failedAt).flubase)


-----------------------------------------------------------------------------
\* C22: between two polls the store holds the watermark the process holds in
\* memory; ending the process there leaves the store as it is; and a start
\* without --clean on a store younger than 172800 seconds leaves the store as
\* it is and holds its firstFile, lastFile and rollover in memory, so that every
\* listed file gets the decision the stored watermark gives it.
C22_RoundTrip ==
    /\ [](pc = "poll" => IsObject(store) /\ Watermark(store) = Watermark(flubase))
    /\ [][(pc = "poll" /\ pc' = "stopped") => store' = store]_vars
    /\ [][(/\ pc = "stopped" /\ pc' = "init"
            /\ ~args'.clean
            /\ IsObject(store)
            /\ now - store.lastSeconds < STALE)
           => /\ store' = store
              /\ Watermark(flubase') = Watermark(store)
              /\ FirstNum(flubase') = FirstNum(store)
              /\ LastNum(flubase') = LastNum(store)
              /\ \A n \in Names :
                    IsNumeral(n) => Decide(flubase', n) = Decide(store, n)]_vars

\* A process started again on the store of one that had fetched past 9999
C22_Witness ==
    /\ pc = "init"
    /\ ~args.clean
    /\ fetched # {}
    /\ flubase.rollover
    /\ Watermark(flubase) = Watermark(store)


-----------------------------------------------------------------------------
\* C23 (as claimed): in every state reached from a reset with rollover true and
\* lastFile other than 9999, lastFile is below firstFile, in memory and in the
\* store: after the wraparound no file numbered firstFile or more is recorded.
C23_NeverLaps ==
    /\ (Running /\ flubase.rollover /\ LastNum(flubase) # MAXNUM)
            => LastNum(flubase) < FirstNum(flubase)
    /\ (IsObject(store) /\ store.rollover /\ LastNum(store) # MAXNUM)
            => LastNum(store) < FirstNum(store)


-----------------------------------------------------------------------------
\* A watermark as new_flubase_file and the recording lines can leave it
WellFormed(fb) ==
    /\ (fb.firstFile = NoneStr) <=> (fb.lastFile = NoneStr)
    /\ fb.firstFile = NoneStr => ~fb.rollover
    /\ (~fb.rollover /\ fb.firstFile # NoneStr) => FirstNum(fb) <= LastNum(fb)

\* C24: in every state reached from a reset, in memory and in the store,
\* firstFile is none exactly when lastFile is none, rollover is false when they
\* are none, and without rollover firstFile <= lastFile; every fetch recorded
\* without rollover raises lastFile strictly; and without rollover a listed
\* number above lastFile is above firstFile too, so `photoNumber > firstNum`
\* never decides.
C24_WellFormed ==
    /\ Running => WellFormed(flubase)
    /\ IsObject(store) => WellFormed(store)
    /\ pc = "record" =>
          LET fb2 == RecordFetch(flubase, CurNum) IN
              /\ WellFormed(fb2)
              /\ ~fb2.rollover => LastNum(fb2) > LastNum(flubase)
    /\ (pc = "eval" /\ IsNumeral(photoList[idx]) /\ ~flubase.rollover)
          => (CurNum > LastNum(flubase) => CurNum > FirstNum(flubase))

\* A second fetch about to be recorded without rollover
C24_Witness ==
    /\ pc = "record"
    /\ ~flubase.rollover
    /\ flubase.lastFile # NoneStr
    /\ CurNum # MAXNUM
    /\ FirstNum(flubase) < CurNum


-----------------------------------------------------------------------------
\* C25 (as claimed): a start that ends in a configuration error (no
\* destination known, or the destination is no directory) leaves the store as
\* it was, absent or with the same content, also with --clean or a stale store.
C25_ConfigErrorKeepsStore ==
    [][(pc = "stopped" /\ pc' = "stopped" /\ exit' = "config") => store' = store]_vars


-----------------------------------------------------------------------------
\* C26: the signal of fluImport.py is raised only with rollover true and
\* lastFile = 9999, and only at a listed file numbered firstFile; in every
\* other state a listed file numbered firstFile is not eligible, nothing is
\* fetched or recorded for it, no signal is raised, and the loop moves to the
\* next item (or ends with the listing).
C26_SignalOnlyAtClosure ==
    /\ [](pc = "beep" =>
            /\ flubase.rollover
            /\ LastNum(flubase) = MAXNUM
            /\ CurNum = FirstNum(flubase)
            /\ closureAt = idx)
    /\ [](closureAt # 0 =>
            /\ flubase.rollover
            /\ LastNum(flubase) = MAXNUM
            /\ IsNumeral(photoList[closureAt])
            /\ PhotoNumber(photoList[closureAt]) = FirstNum(flubase))
    /\ [][(/\ pc = "eval"
            /\ CurNum = FirstNum(flubase)
            /\ ~(flubase.rollover /\ LastNum(flubase) = MAXNUM))
           => /\ ~Decide(flubase, photoList[idx])
              /\ \/ pc' = "stopped"
                 \/ /\ closureAt' = 0
                    /\ flubase' = flubase
                    /\ store' = store
                    /\ batch' = batch
                    /\ IF idx < Len(photoList)
                       THEN pc' = "eval" /\ idx' = idx + 1
                       ELSE pc' = "poll"]_vars

\* The loop has passed a file numbered firstFile after the wraparound, with
\* lastFile other than 9999, without a signal and without a fetch
C26_Witness ==
    /\ pc = "eval"
    /\ idx = 2
    /\ IsNumeral(photoList[1])
    /\ PhotoNumber(photoList[1]) = FirstNum(flubase)
    /\ flubase.rollover
    /\ LastNum(flubase) # MAXNUM
    /\ batch = <<>>
    /\ closureAt = 0

====
